---- MODULE Spec2Model ----
(***************************************************************************)
(* State-machine model of the redis-playground repository:                 *)
(*   - autocomplete.ts : prefix lookup over the sorted set words:all       *)
(*   - articleService.ts: article posting, voting, groups and ranking      *)
(* Every awaited store call of an operation is one step, so operations of  *)
(* different callers interleave at the store boundary.                     *)
(* Strings are sequences of character codes; the sorted set words:all,     *)
(* whose members all carry score 0, is the sequence of its members in      *)
(* ascending byte order.                                                   *)
(***************************************************************************)
EXTENDS Integers, Sequences, FiniteSets, TLC

VARIABLES
    \* ---- autocomplete.ts ----
    dictFile,      \* the words of the file DICT_FILE, ascending
    dict,          \* the words of the file that are in "words:all": all of
                   \*   them after setDict, none after flushDict or
                   \*   clearAllData
    disturbed,     \* per caller: the commands, of "setDict", "flushDict" and
                   \*   "clearAllData", that have changed "words:all" since
                   \*   its call began
    dictCommands,  \* number of commands run so far, next to the autocomplete
                   \*   calls, that load or delete the dictionary
    wordsAll,      \* the sorted set "words:all", ascending
    uuidSeq,       \* number of tokens randomUUIDv7 has handed out
    wpc,           \* per caller: position inside getSimilarWords
    target,        \* per caller: argument of getSimilarWords
    uuid,          \* per caller: the number of the token of its call
    wordsLen,      \* per caller: local wordsLen
    startIdx,      \* per caller: local startIdx
    endIdx,        \* per caller: local endIdx
    similarWords,  \* per caller: the returned list
    prefixWord,    \* the argument of a call of getPrefix on its own
    dictWord,      \* a word the bounds of prefixWord are compared with
    bounds,        \* what that call of getPrefix returned, <<>> before it
    \* ---- articleService.ts ----
    now,           \* Math.floor(Date.now() / 1000)
    articleSeq,    \* the counter key "article:"
    articleHash,   \* the hashes "article:<id>"
    createdZ,      \* the sorted set "article:created"  (member -> score)
    scoreZ,        \* the sorted set "article:score"    (member -> score)
    votedSet,      \* the sets "article:voted:<id>"
    intended,      \* per article id: the groups its callers asked for
    apc,           \* per client: position inside the running operation
    aarg,          \* per client: the arguments of the running postVote
    aloc,          \* per client: locals of the running operation (id, timestamp,
                   \*   ids, rawArticles)
    aret,          \* per client: the value returned
    callTime,      \* per client: the time the running postVote was issued
    cleared        \* has clearAllData flushed the store in this run ?

wvars == <<dictFile, dict, disturbed, dictCommands, wordsAll, uuidSeq, wpc, target, uuid, wordsLen, startIdx,
           endIdx, similarWords>>
avars == <<now, articleSeq, articleHash, createdZ, scoreZ, votedSet, intended,
           apc, aarg, aloc, aret, callTime, cleared>>
pvars == <<prefixWord, dictWord, bounds>>
vars == <<wvars, avars, pvars>>

(***************************************************************************)
(* Bounds of the model                                                     *)
(***************************************************************************)
NumCallers == 2      \* getSimilarWords calls in one run
MaxDictCommands == 1 \* set-dict, flush-dict and clearAllData commands in one
                     \*   run of the autocomplete commands
MaxExtra == 1        \* large dictionaries hold up to MAX_RESULTS + MaxExtra matches
NumClients == 2      \* concurrent clients of the article service
MaxArticles == 2     \* postArticle calls issued in one run
MaxVoteCalls == 2    \* postVote calls issued in one run
MaxTime == 5         \* the clock runs from 0 to MaxTime seconds
MaxTimeConcurrent == 1  \* the same, where several clients run at once
MaxPrefixLen == 2    \* length of the prefixes given to getPrefix on its own
MaxWordLen == 3      \* length of the words compared with its bounds

(***************************************************************************)
(* Strings and their order                                                 *)
(***************************************************************************)
Min2(a, b) == IF a <= b THEN a ELSE b

\* Byte-wise comparison of two members with equal score (the order of a
\* sorted set whose scores are all equal): the first differing character
\* decides, and a proper prefix sorts first.
LexLess(x, y) ==
    LET n == Min2(Len(x), Len(y))
        diff == {i \in 1..n : x[i] # y[i]}
    IN  IF diff = {}
        THEN Len(x) < Len(y)
        ELSE LET k == CHOOSE i \in diff : \A j \in diff : i <= j
             IN  x[k] < y[k]

HasPrefix(w, p) == Len(w) >= Len(p) /\ SubSeq(w, 1, Len(p)) = p

\* Does the sequence s hold the member m ?
Holds(s, m) == \E i \in 1..Len(s) : s[i] = m

(***************************************************************************)
(* The store calls on a sorted set whose members all have score 0          *)
(***************************************************************************)
\* ZCARD
ZCard(s) == Len(s)

\* ZADD of one member with score 0: inserted at its place, or left where it
\* is when already present.
ZAdd(s, m) ==
    IF Holds(s, m) THEN s
    ELSE LET k == Cardinality({i \in 1..Len(s) : LexLess(s[i], m)})
         IN  SubSeq(s, 1, k) \o <<m>> \o SubSeq(s, k + 1, Len(s))

\* ZADD of the members ms, all with score 0: s and ms are both ascending, and
\* the outcome is their union, ascending; the members of s are put one by
\* one at their place among ms.
RECURSIVE ZAddMany(_, _)
ZAddMany(s, ms) ==
    IF Len(s) = 0 THEN ms ELSE ZAddMany(Tail(s), ZAdd(ms, Head(s)))

\* A removal that leaves the member in place.
ZRemKeeps(s, m) == s

\* ZREM of one member.
ZRem(s, m) == SelectSeq(s, LAMBDA x : x # m)

Null == -1000

\* ZRANK: the 0-based rank, or null when the member is absent.
ZRank(s, m) ==
    IF Holds(s, m) THEN (CHOOSE i \in 1..Len(s) : s[i] = m) - 1 ELSE Null

\* ZRANGE key start stop by rank, both ends inclusive; a negative index counts
\* from the end of the set, and an out-of-range window is clipped.
ZRange(s, start, stop) ==
    LET n == Len(s)
        st0 == IF start < 0 THEN start + n ELSE start
        en0 == IF stop < 0 THEN stop + n ELSE stop
        st == IF st0 < 0 THEN 0 ELSE st0
        en == IF en0 >= n THEN n - 1 ELSE en0
    IN  IF st > en \/ st >= n THEN <<>> ELSE SubSeq(s, st + 1, en + 1)

(***************************************************************************)
(* autocomplete.ts                                                         *)
(***************************************************************************)
CharCodeZ == 122     \* "z".charCodeAt(0)
MAX_RESULTS == 100   \* the literal 100 of getSimilarWords

\* A variant whose lower bound has no end marker.
getPrefixNoMarker(word) ==
    LET lastCh == word[Len(word)]
        withoutLastCh == SubSeq(word, 1, Len(word) - 1)
        suffix == <<lastCh - 1>>
        end == <<CharCodeZ + 1>>
    IN  <<withoutLastCh \o suffix, word \o end>>

\* getPrefix(word): the two bounds [start, end] of the words with prefix word.
getPrefix(word) ==
    LET lastCh == word[Len(word)]
        withoutLastCh == SubSeq(word, 1, Len(word) - 1)
        suffix == <<lastCh - 1>>
        end == <<CharCodeZ + 1>>
    IN  <<withoutLastCh \o suffix \o end, word \o end>>

\* The strings over the letters a, b, c, y, z of length lo to hi.
Letters == {97, 98, 99, 121, CharCodeZ}
Strings(lo, hi) == UNION {[1..n -> Letters] : n \in lo..hi}

\* getPrefix is about to be called on a prefix, next to a word to compare.
PrefixInit ==
    /\ prefixWord \in Strings(1, MaxPrefixLen)
    /\ dictWord \in Strings(0, MaxWordLen)
    /\ bounds = <<>>

\* No call of getPrefix on its own.
PrefixIdle ==
    /\ prefixWord = <<>>
    /\ dictWord = <<>>
    /\ bounds = <<>>

\* const [start, end] = getPrefix(word)
GetPrefixCall ==
    /\ bounds = <<>>
    /\ Len(prefixWord) >= 1
    /\ bounds' = getPrefix(prefixWord)
    /\ UNCHANGED <<prefixWord, dictWord>>

\* A variant that hands out the same token every time.
UuidStringFixed(n) == <<48>>

\* randomUUIDv7(): a version 7 uuid starts with the time of its creation,
\* so the tokens are distinct and ascend in the order of the calls.  The
\* n-th token is the one-character string of the digit n.
UuidString(n) == <<48 + n>>

\* start += uuid ; end += uuid
StartOf(q) == getPrefix(target[q])[1] \o UuidString(uuid[q])
EndOf(q) == getPrefix(target[q])[2] \o UuidString(uuid[q])

\* Every run of the command line is one process that makes one call; the
\* processes are numbered in the order of their calls.
Callers == 1..NumCallers

\* The words used in the dictionaries and prefixes.
cap == <<99, 97, 112>>
car == <<99, 97, 114>>
cat == <<99, 97, 116>>
cats == <<99, 97, 116, 115>>
dog == <<100, 111, 103>>
SmallWords == {cap, car, cat, cats, dog}

\* setDict: one ZADD of all the words of the file into words:all.
RECURSIVE SetDict(_)
SetDict(S) ==
    IF S = {} THEN <<>>
    ELSE LET w == CHOOSE x \in S : TRUE
         IN  ZAdd(SetDict(S \ {w}), w)

\* A large dictionary: n four-letter words "ca??" in ascending order,
\* followed by the words of tail.
LargeDict(n, tail) ==
    [i \in 1..n |-> <<99, 97, 97 + ((i - 1) \div 26), 97 + ((i - 1) % 26)>>]
        \o tail

\* The dictionaries of the runs: every subset of SmallWords, and large ones
\* around MAX_RESULTS matches.
Dictionaries ==
    {SetDict(S) : S \in SUBSET SmallWords}
    \cup {LargeDict(n, t) : n \in (MAX_RESULTS - 1)..(MAX_RESULTS + MaxExtra),
                            t \in {<<>>, <<dog>>}}

\* The dictionaries of the runs in which the commands interleave: none of
\* the words, one, some and all of them.
ConcurrentDictionaries ==
    {SetDict(S) : S \in {{}, {cat}, {cap, cats, dog}, SmallWords}}

\* The prefixes asked for: empty, "a", "ca", "cb", "cat".  The upper bound
\* of "ca" and the lower bound of "cb" are the same string.
Targets == {<<>>, <<97>>, <<99, 97>>, <<99, 98>>, cat}

\* wpc is "idle" before the call, "done" after the return, and after a throw
\* "threwTypeError" (getPrefix on the empty string), "threwLookupError"
\* (a rank was null) or "threwStoreError" (a store call rejected).
InFlight(q) ==
    wpc[q] \in {"zCard", "zAddStart", "zAddEnd", "zRankStart", "zRankEnd",
                "zRemStart", "zRemEnd", "zRange"}

\* A variant that inserts a member before getPrefix throws.
GetSimilarWordsCallAddsFirst(q) ==
    /\ wpc[q] = "idle"
    /\ \A r \in 1..(q - 1) : wpc[r] # "idle"
    /\ \E t \in Targets :
        /\ target' = [target EXCEPT ![q] = t]
        /\ wpc' = [wpc EXCEPT ![q] =
                     IF Len(t) = 0 THEN "threwTypeError" ELSE "zCard"]
        /\ wordsAll' = IF Len(t) = 0
                       THEN ZAdd(wordsAll, <<CharCodeZ + 1>>)
                       ELSE wordsAll
    /\ uuidSeq' = uuidSeq + 1
    /\ uuid' = [uuid EXCEPT ![q] = uuidSeq + 1]
    /\ UNCHANGED <<dictFile, dict, disturbed, dictCommands,
                   wordsLen, startIdx, endIdx, similarWords>>

\* getSimilarWords(target), up to the first store call:
\*   uuid = randomUUIDv7(); [start, end] = getPrefix(target)  (throws on "")
GetSimilarWordsCall(q) ==
    /\ wpc[q] = "idle"
    /\ \A r \in 1..(q - 1) : wpc[r] # "idle"
    /\ \E t \in Targets :
        /\ target' = [target EXCEPT ![q] = t]
        /\ wpc' = [wpc EXCEPT ![q] =
                     IF Len(t) = 0 THEN "threwTypeError" ELSE "zCard"]
    /\ uuidSeq' = uuidSeq + 1
    /\ uuid' = [uuid EXCEPT ![q] = uuidSeq + 1]
    /\ UNCHANGED <<dictFile, dict, disturbed, dictCommands,
                   wordsAll, wordsLen, startIdx, endIdx, similarWords>>

\* const wordsLen = await zCard("words:all")
ZCardStep(q) ==
    /\ wpc[q] = "zCard"
    /\ wordsLen' = [wordsLen EXCEPT ![q] = ZCard(wordsAll)]
    /\ wpc' = [wpc EXCEPT ![q] = "zAddStart"]
    /\ UNCHANGED <<dictFile, dict, disturbed, dictCommands,
                   wordsAll, uuidSeq, target, uuid, startIdx, endIdx,
                   similarWords>>

\* await zAdd("words:all", [{ value: start, score: 0 }])
ZAddStart(q) ==
    /\ wpc[q] = "zAddStart"
    /\ wordsAll' = ZAdd(wordsAll, StartOf(q))
    /\ wpc' = [wpc EXCEPT ![q] = "zAddEnd"]
    /\ UNCHANGED <<dictFile, dict, disturbed, dictCommands,
                   uuidSeq, target, uuid, wordsLen, startIdx, endIdx,
                   similarWords>>

\* await zAdd("words:all", [{ value: end, score: 0 }])
ZAddEnd(q) ==
    /\ wpc[q] = "zAddEnd"
    /\ wordsAll' = ZAdd(wordsAll, EndOf(q))
    /\ wpc' = [wpc EXCEPT ![q] = "zRankStart"]
    /\ UNCHANGED <<dictFile, dict, disturbed, dictCommands,
                   uuidSeq, target, uuid, wordsLen, startIdx, endIdx,
                   similarWords>>

\* const startIdx = await zRank("words:all", start)
ZRankStart(q) ==
    /\ wpc[q] = "zRankStart"
    /\ startIdx' = [startIdx EXCEPT ![q] = ZRank(wordsAll, StartOf(q))]
    /\ wpc' = [wpc EXCEPT ![q] = "zRankEnd"]
    /\ UNCHANGED <<dictFile, dict, disturbed, dictCommands,
                   wordsAll, uuidSeq, target, uuid, wordsLen, endIdx,
                   similarWords>>

\* endIdx = Math.min(endIdx, wordsLen, startIdx + 100) - 2
CapEndIdx(e, len, s) == Min2(Min2(e, len), s + MAX_RESULTS) - 2

\* let endIdx = await zRank("words:all", end); the null check; the cap
ZRankEnd(q) ==
    /\ wpc[q] = "zRankEnd"
    /\ LET e == ZRank(wordsAll, EndOf(q))
       IN  IF startIdx[q] = Null \/ e = Null
           THEN \* throw new Error("failed to find similar word")
                /\ endIdx' = [endIdx EXCEPT ![q] = e]
                /\ wpc' = [wpc EXCEPT ![q] = "threwLookupError"]
           ELSE /\ endIdx' = [endIdx EXCEPT ![q] =
                                CapEndIdx(e, wordsLen[q], startIdx[q])]
                /\ wpc' = [wpc EXCEPT ![q] = "zRemStart"]
    /\ UNCHANGED <<dictFile, dict, disturbed, dictCommands,
                   wordsAll, uuidSeq, target, uuid, wordsLen, startIdx,
                   similarWords>>

\* await zRem("words:all", start)
ZRemStart(q) ==
    /\ wpc[q] = "zRemStart"
    /\ wordsAll' = ZRem(wordsAll, StartOf(q))
    /\ wpc' = [wpc EXCEPT ![q] = "zRemEnd"]
    /\ UNCHANGED <<dictFile, dict, disturbed, dictCommands,
                   uuidSeq, target, uuid, wordsLen, startIdx, endIdx,
                   similarWords>>

\* await zRem("words:all", end)
ZRemEnd(q) ==
    /\ wpc[q] = "zRemEnd"
    /\ wordsAll' = ZRem(wordsAll, EndOf(q))
    /\ wpc' = [wpc EXCEPT ![q] = "zRange"]
    /\ UNCHANGED <<dictFile, dict, disturbed, dictCommands,
                   uuidSeq, target, uuid, wordsLen, startIdx, endIdx,
                   similarWords>>

\* const similarWords = await zRange("words:all", startIdx, endIdx); return
ZRangeReturn(q) ==
    /\ wpc[q] = "zRange"
    /\ similarWords' = [similarWords EXCEPT ![q] =
                          ZRange(wordsAll, startIdx[q], endIdx[q])]
    /\ wpc' = [wpc EXCEPT ![q] = "done"]
    /\ UNCHANGED <<dictFile, dict, disturbed, dictCommands,
                   wordsAll, uuidSeq, target, uuid, wordsLen, startIdx,
                   endIdx>>

\* What getSimilarWords(t) returns over the index d when all its store calls
\* run with no other call in between.
getSimilarWordsAlone(d, t) ==
    LET start == getPrefix(t)[1] \o UuidString(1)
        end == getPrefix(t)[2] \o UuidString(1)
        len == ZCard(d)
        both == ZAdd(ZAdd(d, start), end)
        s == ZRank(both, start)
        e == CapEndIdx(ZRank(both, end), len, s)
    IN  ZRange(ZRem(ZRem(both, start), end), s, e)

\* An awaited store call rejects (connection lost, timeout): the exception
\* leaves getSimilarWords at once, which has no try/finally.
StoreCallFails(q) ==
    /\ InFlight(q)
    /\ wpc' = [wpc EXCEPT ![q] = "threwStoreError"]
    /\ UNCHANGED <<dictFile, dict, disturbed, dictCommands,
                   wordsAll, uuidSeq, target, uuid, wordsLen, startIdx,
                   endIdx, similarWords>>

\* The calls that a command which changes words:all disturbs: those that
\* have begun, whether they are still running or not.
Disturbs(command, changes) ==
    [q \in Callers |->
        IF changes /\ wpc[q] # "idle" THEN disturbed[q] \cup {command}
        ELSE disturbed[q]]

\* The command set-dict, setDict(): one zAdd("words:all", ...) of all the
\* words of the file.  It adds the words that are not in the index yet and
\* leaves the other members, the sentinels of running calls included, where
\* they are.  With the words in the index already (dict = dictFile) the
\* zAdd adds no member; otherwise none of them is in it (dict is empty) and
\* the index holds sentinels only.  The keys words:defs:<word> it sets are
\* read by getSimilarWithDefs only and are left out.
SetDictCommand ==
    /\ dictCommands < MaxDictCommands
    /\ dictCommands' = dictCommands + 1
    /\ wordsAll' = IF dict = dictFile THEN wordsAll
                   ELSE ZAddMany(wordsAll, dictFile)
    /\ dict' = dictFile
    /\ disturbed' = Disturbs("setDict", dict # dictFile)
    /\ UNCHANGED <<dictFile, uuidSeq, wpc, target, uuid, wordsLen, startIdx,
                   endIdx, similarWords>>

\* The command flush-dict, flushDict(): del("words:all") deletes the index,
\* with every member it holds; the keys words:defs:* it deletes next are
\* left out.
FlushDictCommand ==
    /\ dictCommands < MaxDictCommands
    /\ dictCommands' = dictCommands + 1
    /\ wordsAll' = <<>>
    /\ dict' = <<>>
    /\ disturbed' = Disturbs("flushDict", wordsAll # <<>>)
    /\ UNCHANGED <<dictFile, uuidSeq, wpc, target, uuid, wordsLen, startIdx,
                   endIdx, similarWords>>

\* No call has been made yet.
CallersIdle ==
    /\ uuidSeq = 0
    /\ disturbed = [q \in Callers |-> {}]
    /\ dictCommands = 0
    /\ wpc = [q \in Callers |-> "idle"]
    /\ target = [q \in Callers |-> <<>>]
    /\ uuid = [q \in Callers |-> 0]
    /\ wordsLen = [q \in Callers |-> 0]
    /\ startIdx = [q \in Callers |-> Null]
    /\ endIdx = [q \in Callers |-> Null]
    /\ similarWords = [q \in Callers |-> <<>>]

\* words:all of a store that setDict has not loaded yet, or has loaded.
WordsInit(files) ==
    /\ dictFile \in files
    /\ dict \in {<<>>, dictFile}
    /\ wordsAll = dict
    /\ CallersIdle

\* words:all after flushDict.
WordsIdle ==
    /\ dictFile = <<>>
    /\ dict = <<>>
    /\ wordsAll = <<>>
    /\ CallersIdle

(***************************************************************************)
(* articleService.ts                                                       *)
(***************************************************************************)
SCORE_PER_VOTE == 432
VOTING_WINDOW == 5

Clients == 1..NumClients
Ids == 1..MaxArticles          \* the ids  incr("article:")  can hand out
Users == {"user1", "user2"}
Groups == {"g1", "g2"}
Counts == {1, 10}              \* values passed as count

\* `${id}`: the decimal digits of a non-negative integer.
RECURSIVE IdString(_)
IdString(n) ==
    IF n < 10 THEN <<48 + n>> ELSE IdString(n \div 10) \o <<48 + (n % 10)>>

\* parseInt of a string of decimal digits.
RECURSIVE ParseInt(_)
ParseInt(str) ==
    IF Len(str) = 0 THEN 0
    ELSE 10 * ParseInt(SubSeq(str, 1, Len(str) - 1)) + (str[Len(str)] - 48)

\* A hash "article:<id>": hasFields tells whether hSet wrote id, title,
\* link, userId and timestamp (title, link and userId are stored and
\* returned untouched and are left out); votes is the field "votes",
\* 0 when the field is absent.
NoHash == [hasFields |-> FALSE, timestamp |-> 0, votes |-> 0]

\* A sorted set over article ids: z[i] is the score of member `${i}`, Null
\* when it is no member.
EmptyZ == [i \in Ids |-> Null]
Members(z) == {i \in Ids : z[i] # Null}

\* ZADD key score member
ZAddScore(z, i, sc) == [z EXCEPT ![i] = sc]

\* ZINCRBY key delta member: a member that is absent starts from 0.
ZIncrBy(z, i, delta) ==
    [z EXCEPT ![i] = (IF z[i] = Null THEN 0 ELSE z[i]) + delta]

\* The members of z from the highest score down; members of equal score in
\* descending byte order of the member string.
RevBefore(z, i, j) ==
    \/ z[i] > z[j]
    \/ z[i] = z[j] /\ LexLess(IdString(j), IdString(i))

RevOrder(z) ==
    LET ms == Members(z)
        pos(i) == 1 + Cardinality({j \in ms : RevBefore(z, j, i)})
    IN  [k \in 1..Cardinality(ms) |-> CHOOSE i \in ms : pos(i) = k]

\* const ids = await client.zRange("article:score", 0, 100, { REV: true })
TopIds(z) == ZRange(RevOrder(z), 0, 100)

\* articleSchema.parse(raw): a record without the string fields id, title,
\* userId, link and timestamp is rejected (ZodError); votes defaults to 0.
Parses(h) == h.hasFields
toArticle(i, h) ==
    [id |-> i,
     votes |-> IF h.votes # 0 THEN ParseInt(IdString(h.votes)) ELSE 0,
     timestamp |-> ParseInt(IdString(h.timestamp))]

\* What an operation hands back: the kind of value and the value.
Ret(kind, val) == [kind |-> kind, val |-> val]
NoRet == Ret("none", 0)

\* rawArticles.map(toArticle), rawArticles[k] being the reply of
\* hGetAll(`article:${ids[k]}`): the list, or the ZodError thrown when a
\* record fails to parse.
ToArticles(ids, rawArticles) ==
    IF \A k \in 1..Len(ids) : Parses(rawArticles[k])
    THEN Ret("articles", [k \in 1..Len(ids) |-> toArticle(ids[k], rawArticles[k])])
    ELSE Ret("ZodError", 0)

\* The replies of ids.map(hGetAll) when all the reads see the hashes h.
HGetAllOf(ids, h) == [k \in 1..Len(ids) |-> h[ids[k]]]

\* What getTopArticles(count, group) returns when no other call interleaves.
getTopArticles(count, group) ==
    ToArticles(TopIds(scoreZ), HGetAllOf(TopIds(scoreZ), articleHash))

Busy(c) == apc[c] \notin {"idle", "done", "failed"}

\* The number of postVote calls issued so far: the votes counted, and the
\* calls that have not yet reached hIncrBy.
RECURSIVE SumVotes(_)
SumVotes(S) ==
    IF S = {} THEN 0
    ELSE LET i == CHOOSE x \in S : TRUE
         IN  articleHash[i].votes + SumVotes(S \ {i})

VoteCalls ==
    SumVotes(Ids) + Cardinality({c \in Clients : apc[c] \in {"zIncrBy", "hIncrBy"}})

\* Arguments kept for the claims: articleId and userId of a postVote, count
\* and group of a getTopArticles, articleId and the two group sets of an
\* updateArticleGroups, with repeat telling that the call before it was the
\* same call.  Locals: id and timestamp of postArticle, ids of
\* getTopArticles and raw, the replies of its hGetAll calls that have come
\* in, and added, the reply of sAdd (the number of members it added), which
\* postVote does not look at.
NoArg ==
    [articleId |-> 0, userId |-> "none", count |-> 0, group |-> "none",
     addToGroups |-> {}, removeFromGroups |-> {}, repeat |-> FALSE]
NoLoc == [id |-> 0, timestamp |-> 0, ids |-> <<>>, raw |-> <<>>, added |-> 0]

\* The groups the tests pass to postArticle.
PostGroups == SUBSET Groups

\* A variant that gives every article the id 1.
PostArticleIncrSameId(c, groups) ==
    /\ ~Busy(c)
    /\ articleSeq < MaxArticles
    /\ articleSeq' = articleSeq + 1
    /\ aarg' = [aarg EXCEPT ![c] = NoArg]
    /\ aloc' = [aloc EXCEPT ![c] = [NoLoc EXCEPT !.id = 1]]
    /\ apc' = [apc EXCEPT ![c] = "timestamp"]
    /\ aret' = [aret EXCEPT ![c] = NoRet]
    /\ intended' = [intended EXCEPT ![1] = groups]
    /\ UNCHANGED <<now, articleHash, createdZ, scoreZ, votedSet, callTime,
                   cleared>>

\* ---- postArticle(client, title, link, userId) ----
\* const id = await client.incr("article:")
\* The tests pass a fifth argument, the groups of the article; the function
\* has no such parameter.  intended records what the caller asked for.
PostArticleIncr(c, groups) ==
    /\ ~Busy(c)
    /\ articleSeq < MaxArticles
    /\ articleSeq' = articleSeq + 1
    /\ aarg' = [aarg EXCEPT ![c] = NoArg]
    /\ aloc' = [aloc EXCEPT ![c] = [NoLoc EXCEPT !.id = articleSeq + 1]]
    /\ apc' = [apc EXCEPT ![c] = "timestamp"]
    /\ aret' = [aret EXCEPT ![c] = NoRet]
    /\ intended' = [intended EXCEPT ![articleSeq + 1] = groups]
    /\ UNCHANGED <<now, articleHash, createdZ, scoreZ, votedSet, callTime,
                   cleared>>

\* const timestamp = Math.floor(Date.now() / 1000): the clock is read when
\* the reply of incr has come in, which is after the store ran the command.
PostArticleTimestamp(c) ==
    /\ apc[c] = "timestamp"
    /\ aloc' = [aloc EXCEPT ![c].timestamp = now]
    /\ apc' = [apc EXCEPT ![c] = "hSet"]
    /\ UNCHANGED <<now, articleSeq, articleHash, createdZ, scoreZ, votedSet,
                   intended, aarg, aret, callTime, cleared>>

\* await client.hSet(`article:${id}`, { id, title, link, userId, timestamp })
PostArticleHSet(c) ==
    /\ apc[c] = "hSet"
    /\ articleHash' = [articleHash EXCEPT ![aloc[c].id] =
                         [@ EXCEPT !.hasFields = TRUE,
                                   !.timestamp = aloc[c].timestamp]]
    /\ apc' = [apc EXCEPT ![c] = "zAddCreated"]
    /\ UNCHANGED <<now, articleSeq, createdZ, scoreZ, votedSet, intended, aarg,
                   aloc, aret, callTime, cleared>>

\* await client.zAdd("article:created", { value: `${id}`, score: timestamp })
PostArticleZAddCreated(c) ==
    /\ apc[c] = "zAddCreated"
    /\ createdZ' = ZAddScore(createdZ, aloc[c].id, aloc[c].timestamp)
    /\ apc' = [apc EXCEPT ![c] = "zAddScore"]
    /\ UNCHANGED <<now, articleSeq, articleHash, scoreZ, votedSet, intended,
                   aarg, aloc, aret, callTime, cleared>>

\* await client.zAdd("article:score", { value: `${id}`, score: timestamp });
\* return `${id}`
PostArticleZAddScore(c) ==
    /\ apc[c] = "zAddScore"
    /\ scoreZ' = ZAddScore(scoreZ, aloc[c].id, aloc[c].timestamp)
    /\ apc' = [apc EXCEPT ![c] = "done"]
    /\ aret' = [aret EXCEPT ![c] = Ret("id", aloc[c].id)]
    /\ aloc' = [aloc EXCEPT ![c] = NoLoc]
    /\ UNCHANGED <<now, articleSeq, articleHash, createdZ, votedSet, intended,
                   aarg, callTime, cleared>>

\* ---- postVote(client, articleId, userId) ----
\* await client.sAdd(`article:voted:${articleId}`, userId)
PostVoteSAdd(c, a, u) ==
    /\ ~Busy(c)
    /\ VoteCalls < MaxVoteCalls
    /\ votedSet' = [votedSet EXCEPT ![a] = @ \cup {u}]
    /\ aarg' = [aarg EXCEPT ![c] = [NoArg EXCEPT !.articleId = a, !.userId = u]]
    /\ aloc' = [aloc EXCEPT ![c] =
                  [NoLoc EXCEPT !.added = IF u \in votedSet[a] THEN 0 ELSE 1]]
    /\ apc' = [apc EXCEPT ![c] = "zIncrBy"]
    /\ aret' = [aret EXCEPT ![c] = NoRet]
    /\ callTime' = [callTime EXCEPT ![c] = now]
    /\ UNCHANGED <<now, articleSeq, articleHash, createdZ, scoreZ, intended,
                   cleared>>

\* await client.zIncrBy(`article:score`, 432, articleId)
PostVoteZIncrBy(c) ==
    /\ apc[c] = "zIncrBy"
    /\ scoreZ' = ZIncrBy(scoreZ, aarg[c].articleId, SCORE_PER_VOTE)
    /\ apc' = [apc EXCEPT ![c] = "hIncrBy"]
    /\ UNCHANGED <<now, articleSeq, articleHash, createdZ, votedSet, intended,
                   aarg, aloc, aret, callTime, cleared>>

\* await client.hIncrBy(`article:${articleId}`, "votes", 1); the function
\* returns nothing (undefined).
PostVoteHIncrBy(c) ==
    /\ apc[c] = "hIncrBy"
    /\ articleHash' = [articleHash EXCEPT ![aarg[c].articleId].votes = @ + 1]
    /\ apc' = [apc EXCEPT ![c] = "done"]
    /\ aret' = [aret EXCEPT ![c] = Ret("undefined", 0)]
    /\ aarg' = [aarg EXCEPT ![c] = NoArg]
    /\ aloc' = [aloc EXCEPT ![c] = NoLoc]
    /\ callTime' = [callTime EXCEPT ![c] = 0]
    /\ UNCHANGED <<now, articleSeq, createdZ, scoreZ, votedSet, intended,
                   cleared>>

\* ---- updateArticleGroups(client, articleId, addToGroups, removeFromGroups)
\* The body is  return false.  intended records what the caller asked for:
\* the groups added, then the groups removed.
\* Client c has just come back from updateArticleGroups(a, add, rem).
UpdatedGroups(c, a, add, rem) ==
    /\ apc[c] = "done"
    /\ aret[c].kind = "boolean"
    /\ aarg[c].articleId = a
    /\ aarg[c].addToGroups = add
    /\ aarg[c].removeFromGroups = rem

\* A variant that answers the opposite of what the call before it answered.
updateArticleGroupsFlips(c, a, addToGroups, removeFromGroups) ==
    /\ ~Busy(c)
    /\ aarg' = [aarg EXCEPT ![c] =
                  [NoArg EXCEPT !.articleId = a,
                                !.addToGroups = addToGroups,
                                !.removeFromGroups = removeFromGroups,
                                !.repeat = UpdatedGroups(c, a, addToGroups,
                                                         removeFromGroups)]]
    /\ aloc' = [aloc EXCEPT ![c] = NoLoc]
    /\ apc' = [apc EXCEPT ![c] = "done"]
    /\ aret' = [aret EXCEPT ![c] =
                  Ret("boolean", aret[c] = Ret("boolean", FALSE))]
    /\ intended' = [intended EXCEPT ![a] = (@ \cup addToGroups) \ removeFromGroups]
    /\ UNCHANGED <<now, articleSeq, articleHash, createdZ, scoreZ, votedSet,
                   callTime, cleared>>

updateArticleGroups(c, a, addToGroups, removeFromGroups) ==
    /\ ~Busy(c)
    /\ aarg' = [aarg EXCEPT ![c] =
                  [NoArg EXCEPT !.articleId = a,
                                !.addToGroups = addToGroups,
                                !.removeFromGroups = removeFromGroups,
                                !.repeat = UpdatedGroups(c, a, addToGroups,
                                                         removeFromGroups)]]
    /\ aloc' = [aloc EXCEPT ![c] = NoLoc]
    /\ apc' = [apc EXCEPT ![c] = "done"]
    /\ aret' = [aret EXCEPT ![c] = Ret("boolean", FALSE)]
    /\ intended' = [intended EXCEPT ![a] = (@ \cup addToGroups) \ removeFromGroups]
    /\ UNCHANGED <<now, articleSeq, articleHash, createdZ, scoreZ, votedSet,
                   callTime, cleared>>

\* ---- getTopArticles(client, count, group) ----
\* const ids = await client.zRange("article:score", 0, 100, { REV: true })
\* With no id, Promise.all([]) is resolved without a store call and the
\* empty list is returned.
GetTopZRange(c, count, group) ==
    /\ ~Busy(c)
    /\ aarg' = [aarg EXCEPT ![c] = [NoArg EXCEPT !.count = count, !.group = group]]
    /\ LET ids == TopIds(scoreZ)
       IN  IF Len(ids) = 0
           THEN /\ aloc' = [aloc EXCEPT ![c] = NoLoc]
                /\ apc' = [apc EXCEPT ![c] = "done"]
                /\ aret' = [aret EXCEPT ![c] = ToArticles(ids, <<>>)]
           ELSE /\ aloc' = [aloc EXCEPT ![c] = [NoLoc EXCEPT !.ids = ids]]
                /\ apc' = [apc EXCEPT ![c] = "hGetAll"]
                /\ aret' = [aret EXCEPT ![c] = NoRet]
    /\ UNCHANGED <<now, articleSeq, articleHash, createdZ, scoreZ, votedSet,
                   intended, callTime, cleared>>

\* rawArticles = await Promise.all(ids.map(hGetAll)): one hGetAll per id,
\* run by the store in the order of ids, each a command of its own that the
\* commands of other clients may precede or follow.  This is the next of
\* them; after the last,  return rawArticles.map(toArticle).
GetTopHGetAll(c) ==
    /\ apc[c] = "hGetAll"
    /\ LET ids == aloc[c].ids
           rawArticles ==
               Append(aloc[c].raw, articleHash[ids[Len(aloc[c].raw) + 1]])
           res == ToArticles(ids, rawArticles)
       IN  IF Len(rawArticles) < Len(ids)
           THEN /\ aloc' = [aloc EXCEPT ![c].raw = rawArticles]
                /\ UNCHANGED <<apc, aret>>
           ELSE /\ aloc' = [aloc EXCEPT ![c] = NoLoc]
                /\ aret' = [aret EXCEPT ![c] = res]
                /\ apc' = [apc EXCEPT ![c] =
                             IF res.kind = "ZodError" THEN "failed" ELSE "done"]
    /\ UNCHANGED <<now, articleSeq, articleHash, createdZ, scoreZ, votedSet,
                   intended, aarg, callTime, cleared>>

\* ---- clearAllData(client) ----
\* await client.flushDb(): every key of the store is deleted, the counter
\* "article:" included, so the next incr answers 1 again.  With the articles
\* gone, nothing is left of what their callers asked for.  The autocomplete
\* commands use the same store (both modules call createClient() with its
\* defaults), so words:all is deleted with the rest, the sentinels of
\* running calls included.
ClearAllData(c) ==
    /\ ~Busy(c)
    /\ wordsAll' = <<>>
    /\ dict' = <<>>
    /\ disturbed' = Disturbs("clearAllData", wordsAll # <<>>)
    /\ articleSeq' = 0
    /\ articleHash' = [i \in Ids |-> NoHash]
    /\ createdZ' = EmptyZ
    /\ scoreZ' = EmptyZ
    /\ votedSet' = [i \in Ids |-> {}]
    /\ intended' = [i \in Ids |-> {}]
    /\ aarg' = [aarg EXCEPT ![c] = NoArg]
    /\ aloc' = [aloc EXCEPT ![c] = NoLoc]
    /\ apc' = [apc EXCEPT ![c] = "done"]
    /\ aret' = [aret EXCEPT ![c] = Ret("undefined", 0)]
    /\ cleared' = TRUE
    /\ UNCHANGED <<now, callTime, dictFile, uuidSeq, wpc, target, uuid,
                   wordsLen, startIdx, endIdx, similarWords>>

\* One second passes, up to the last second of the run.
Tick(last) ==
    /\ now < last
    /\ now' = now + 1
    /\ UNCHANGED <<articleSeq, articleHash, createdZ, scoreZ, votedSet, intended,
                   apc, aarg, aloc, aret, callTime, cleared>>

\* The store after clearAllData (flushDb), no client running.
ArticlesInit ==
    /\ now = 0
    /\ articleSeq = 0
    /\ articleHash = [i \in Ids |-> NoHash]
    /\ createdZ = EmptyZ
    /\ scoreZ = EmptyZ
    /\ votedSet = [i \in Ids |-> {}]
    /\ intended = [i \in Ids |-> {}]
    /\ apc = [c \in Clients |-> "idle"]
    /\ aarg = [c \in Clients |-> NoArg]
    /\ aloc = [c \in Clients |-> NoLoc]
    /\ aret = [c \in Clients |-> NoRet]
    /\ callTime = [c \in Clients |-> 0]
    /\ cleared = FALSE

(***************************************************************************)
(* Specifications                                                          *)
(***************************************************************************)
\* One step of the process of caller q.
WordsStep(q) ==
    \/ GetSimilarWordsCall(q)
    \/ ZCardStep(q)
    \/ ZAddStart(q)
    \/ ZAddEnd(q)
    \/ ZRankStart(q)
    \/ ZRankEnd(q)
    \/ ZRemStart(q)
    \/ ZRemEnd(q)
    \/ ZRangeReturn(q)
    \/ StoreCallFails(q)

\* A run of set-dict or of flush-dict.
DictStep == SetDictCommand \/ FlushDictCommand

\* A client of the article service calls clearAllData on the store the
\* autocomplete commands use; the call is counted with the commands that
\* load or delete the dictionary.
ClearStep ==
    /\ dictCommands < MaxDictCommands
    /\ dictCommands' = dictCommands + 1
    /\ \E c \in {1} : ClearAllData(c)

\* The commands are run one after the other: a process steps only while no
\* other process is inside getSimilarWords.
WordsNext ==
    /\ \/ /\ \E q \in Callers :
               /\ \A r \in Callers \ {q} : ~InFlight(r)
               /\ WordsStep(q)
          /\ UNCHANGED avars
       \/ /\ \A r \in Callers : ~InFlight(r)
          /\ DictStep
          /\ UNCHANGED avars
       \/ /\ \A r \in Callers : ~InFlight(r)
          /\ ClearStep
    /\ UNCHANGED pvars

\* The commands are run at the same time: their store calls interleave.
WordsNextConcurrent ==
    /\ \/ (\E q \in Callers : WordsStep(q)) /\ UNCHANGED avars
       \/ DictStep /\ UNCHANGED avars
       \/ ClearStep
    /\ UNCHANGED pvars

\* One step of a postArticle of client c, for an article of one of the
\* group sets gs.
PostArticleStep(c, gs) ==
    \/ \E g \in gs : PostArticleIncr(c, g)
    \/ PostArticleTimestamp(c)
    \/ PostArticleHSet(c)
    \/ PostArticleZAddCreated(c)
    \/ PostArticleZAddScore(c)

\* One step of a postVote of client c, for one of the users us.
PostVoteStep(c, us) ==
    \/ \E a \in Ids, u \in us : PostVoteSAdd(c, a, u)
    \/ PostVoteZIncrBy(c)
    \/ PostVoteHIncrBy(c)

\* One step of a getTopArticles of client c, for one of the counts ns and
\* one of the groups gs.
GetTopStep(c, ns, gs) ==
    \/ \E n \in ns, g \in gs : GetTopZRange(c, n, g)
    \/ GetTopHGetAll(c)

\* One call of updateArticleGroups by client c.
UpdateGroupsStep(c) ==
    \E a \in Ids, add \in SUBSET Groups, rem \in SUBSET Groups :
        updateArticleGroups(c, a, add, rem)

\* Posting, voting, reading and clearing by the clients cs, without groups:
\* votes of the users us, reads of one of the counts ns, until the second
\* last.
ArticlesNext(cs, us, ns, last) ==
    /\ \/ /\ \E c \in cs :
               \/ PostArticleStep(c, {{}})
               \/ PostVoteStep(c, us)
               \/ GetTopStep(c, ns, {"undefined"})
          /\ UNCHANGED wvars
       \/ (\E c \in cs : ClearAllData(c)) /\ UNCHANGED dictCommands
       \/ Tick(last) /\ UNCHANGED wvars
    /\ UNCHANGED pvars

\* Posting into groups, regrouping and reading a group by the clients cs,
\* within one second: no operation on groups reads the clock.
GroupsNext(cs) ==
    /\ \/ /\ \E c \in cs :
               \/ PostArticleStep(c, PostGroups)
               \/ UpdateGroupsStep(c)
               \/ GetTopStep(c, Counts, Groups \cup {"undefined"})
          /\ UNCHANGED wvars
       \/ (\E c \in cs : ClearAllData(c)) /\ UNCHANGED dictCommands
    /\ UNCHANGED pvars

\* The article service used by one client, one operation after the other
\* (the way the tests drive it).
Init == WordsIdle /\ ArticlesInit /\ PrefixIdle
Next == ArticlesNext({1}, Users, Counts, MaxTime)
Spec == Init /\ [][Next]_vars

\* The groups of the article service, used by one client.
NextGroups == GroupsNext({1})
SpecGroups == Init /\ [][NextGroups]_vars

\* The article service used by several clients at once.
NextConcurrent == ArticlesNext(Clients, Users, {10}, MaxTimeConcurrent)
SpecConcurrent == Init /\ [][NextConcurrent]_vars

\* The autocomplete commands, one at a time.
InitWords == WordsInit(Dictionaries) /\ ArticlesInit /\ PrefixIdle
SpecWords == InitWords /\ [][WordsNext]_vars

\* The autocomplete commands, at the same time.
InitWordsConcurrent ==
    WordsInit(ConcurrentDictionaries) /\ ArticlesInit /\ PrefixIdle
SpecWordsConcurrent == InitWordsConcurrent /\ [][WordsNextConcurrent]_vars

\* getPrefix called on its own.
InitPrefix == WordsIdle /\ ArticlesInit /\ PrefixInit
NextPrefix == GetPrefixCall /\ UNCHANGED <<wvars, avars>>
SpecPrefix == InitPrefix /\ [][NextPrefix]_vars

(***************************************************************************)
(* Properties of getSimilarWords                                           *)
(***************************************************************************)
\* The dictionary words with prefix p, ascending.
Matches(p) == SelectSeq(dict, LAMBDA w : HasPrefix(w, p))

\* A member that holds the character after "z" is a sentinel.
IsSentinel(m) == \E k \in 1..Len(m) : m[k] = CharCodeZ + 1

\* No set-dict, flush-dict or clearAllData has changed words:all since the
\* call of q began: dict is the dictionary of the call.
FixedDictionary(q) == disturbed[q] = {}

\* Caller q has returned, over a dictionary that has stayed as it was, and
\* the index holds the dictionary and nothing else.  Where the calls are
\* made one at a time, the call of q ran alone over the dictionary: no call
\* before it left a sentinel behind.
ReturnedAlone(q) == wpc[q] = "done" /\ FixedDictionary(q) /\ wordsAll = dict

\* C1: a prefix query that runs alone, for a prefix of length >= 1 with at
\* most MAX_RESULTS matching words, returns exactly the dictionary words
\* that start with the prefix, in ascending order.
C1_ReturnsAllMatches ==
    \A q \in Callers :
        (ReturnedAlone(q) /\ Len(target[q]) >= 1
            /\ Len(Matches(target[q])) <= MAX_RESULTS)
        => similarWords[q] = Matches(target[q])

\* C5: whichever way getSimilarWords is left (return, lookup error, store
\* error), neither of its two sentinels is still in words:all.
C5_SentinelsRemovedOnEveryExit ==
    \A q \in Callers :
        (wpc[q] \in {"done", "threwLookupError", "threwStoreError"})
        => /\ ~Holds(wordsAll, StartOf(q))
           /\ ~Holds(wordsAll, EndOf(q))

\* C6: when every call issued so far has returned (none threw, none is
\* running) and no set-dict, flush-dict or clearAllData has changed the
\* index since the first of them began, words:all has the cardinality of the dictionary, holds no
\* sentinel and holds exactly the dictionary words.
C6_NoSentinelLeak ==
    (\A q \in Callers : wpc[q] \in {"idle", "done"} /\ FixedDictionary(q))
    => /\ ZCard(wordsAll) = ZCard(dict)
       /\ \A i \in 1..Len(wordsAll) : ~IsSentinel(wordsAll[i])
       /\ wordsAll = dict

\* Every call has returned, over a non-empty dictionary, and one of them
\* was interleaved with another: its zCard counted both sentinels of a call
\* that was running.
C6_Witness ==
    /\ \A q \in Callers :
          wpc[q] = "done" /\ Len(target[q]) >= 1 /\ FixedDictionary(q)
    /\ \E q \in Callers : wordsLen[q] = Len(dict) + 2
    /\ Len(dict) >= 1
    /\ wordsAll = dict

\* C7: with more than MAX_RESULTS matching words, a query that runs alone
\* returns the MAX_RESULTS smallest of them, ascending.
C7_ReturnsSmallestMaxResults ==
    \A q \in Callers :
        (ReturnedAlone(q) /\ Len(target[q]) >= 1
            /\ Len(Matches(target[q])) > MAX_RESULTS)
        => similarWords[q] = SubSeq(Matches(target[q]), 1, MAX_RESULTS)

(***************************************************************************)
(* Properties of the article service                                       *)
(***************************************************************************)
\* No operation is between two of its store calls.
Quiet == \A c \in Clients : ~Busy(c)

\* The score the README defines for an article record.
ScoreOf(art) == art.timestamp + art.votes * SCORE_PER_VOTE

\* Client c has just come back from getTopArticles.
GotTop(c) ==
    apc[c] \in {"done", "failed"} /\ aret[c].kind \in {"articles", "ZodError"}

\* The ids of a list of articles.
IdsOf(list) == {list[k].id : k \in 1..Len(list)}

NonIncreasing(list) ==
    \A k \in 1..(Len(list) - 1) : ScoreOf(list[k]) >= ScoreOf(list[k + 1])

\* Article a is in the list getTopArticles returns for group g.
Listed(a, g) ==
    LET r == getTopArticles(10, g)
    IN  r.kind = "articles" /\ a \in IdsOf(r.val)

\* Client c takes the second or third step of a postVote.
VoteStep(c) == apc[c] \in {"zIncrBy", "hIncrBy"} /\ apc'[c] # apc[c]

\* C2: the vote count of an article is the number of distinct users who
\* voted on it: a postVote by a user who is already in the voter set of an
\* existing article changes neither its vote count nor its score.
C2_SecondVoteNotCounted ==
    [][\A c \in Clients :
          (VoteStep(c) /\ aloc[c].added = 0
              /\ articleHash[aarg[c].articleId].hasFields)
          => /\ scoreZ'[aarg[c].articleId] = scoreZ[aarg[c].articleId]
             /\ articleHash'[aarg[c].articleId].votes
                    = articleHash[aarg[c].articleId].votes]_vars

\* C3: whenever no operation is running, every posted article has
\* score = timestamp + votes * SCORE_PER_VOTE in the score index.
C3_ScoreIsTimestampPlusVotes ==
    \A a \in Ids :
        (Quiet /\ articleHash[a].hasFields)
        => scoreZ[a] = ScoreOf(articleHash[a])

\* C4: a postVote issued VOTING_WINDOW seconds or more after the article's
\* timestamp changes neither the voter set, nor the score, nor the vote
\* count, and returns false.
C4_LateVoteRejected ==
    [][\A c \in Clients :
          /\ (~Busy(c) /\ apc'[c] = "zIncrBy")
             => LET a == aarg'[c].articleId
                IN  (articleHash[a].hasFields
                        /\ now - articleHash[a].timestamp >= VOTING_WINDOW)
                    => votedSet' = votedSet
          /\ VoteStep(c)
             => LET a == aarg[c].articleId
                IN  (articleHash[a].hasFields
                        /\ callTime[c] - articleHash[a].timestamp >= VOTING_WINDOW)
                    => /\ scoreZ' = scoreZ
                       /\ articleHash' = articleHash
                       /\ apc'[c] = "done" => aret'[c] = Ret("boolean", FALSE)]_vars

\* C8: after any sequence of postArticle and postVote, getTopArticles
\* returns the list of articles, in non-increasing order of
\* timestamp + votes * SCORE_PER_VOTE.
C8_TopArticlesByScore ==
    \A c \in Clients :
        GotTop(c) => aret[c].kind = "articles" /\ NonIncreasing(aret[c].val)

\* C9: updateArticleGroups on a posted article returns true; afterwards the
\* article is listed for every added group that is not also removed, is not
\* listed for any removed group, and is listed for the other groups as before.
C9_UpdateGroupsTakesEffect ==
    [][\A c \in Clients, a \in Ids, add \in SUBSET Groups, rem \in SUBSET Groups :
          (updateArticleGroups(c, a, add, rem) /\ articleHash[a].hasFields
              /\ scoreZ[a] # Null)
          => /\ aret'[c] = Ret("boolean", TRUE)
             /\ \A g \in add \ rem : Listed(a, g)'
             /\ \A g \in rem : ~Listed(a, g)'
             /\ \A g \in Groups \ (add \cup rem) : Listed(a, g)' = Listed(a, g)]_vars

\* C10: the list getTopArticles returns for a group holds exactly the posted
\* articles that were put into the group and not taken out of it, in
\* non-increasing order of score.
C10_GroupListsItsMembers ==
    \A c \in Clients :
        (GotTop(c) /\ aret[c].kind = "articles" /\ aarg[c].group \in Groups)
        => /\ IdsOf(aret[c].val) =
                {a \in Ids : /\ articleHash[a].hasFields
                             /\ scoreZ[a] # Null
                             /\ aarg[c].group \in intended[a]}
           /\ NonIncreasing(aret[c].val)

\* C11: an updateArticleGroups that repeats the call before it returns the
\* same value and leaves every article listed for the same groups as the
\* first call left it; a call that adds only groups the article is listed
\* for and removes only groups it is not listed for changes no listing.
C11_GroupUpdatesIdempotent ==
    [][\A c \in Clients :
          (/\ ~Busy(c)
           /\ aret'[c].kind = "boolean"
           /\ updateArticleGroups(c, aarg'[c].articleId, aarg'[c].addToGroups,
                                  aarg'[c].removeFromGroups))
          => LET a == aarg'[c].articleId
                 add == aarg'[c].addToGroups
                 rem == aarg'[c].removeFromGroups
                 \* a listing is read from article:score and the hashes
                 SameListing ==
                     \/ scoreZ' = scoreZ /\ articleHash' = articleHash
                     \/ \A b \in Ids, g \in Groups :
                            Listed(b, g)' = Listed(b, g)
             IN  /\ UpdatedGroups(c, a, add, rem)
                    => aret'[c] = aret[c] /\ SameListing
                 /\ ((\A g \in add : Listed(a, g))
                        /\ (\A g \in rem : ~Listed(a, g)))
                    => SameListing]_vars

\* A posted article has had the same updateArticleGroups call twice in a
\* row, with groups to add and to remove.
C11_Witness ==
    \E c \in Clients :
        /\ apc[c] = "done"
        /\ aret[c].kind = "boolean"
        /\ aarg[c].repeat
        /\ aarg[c].addToGroups # {}
        /\ aarg[c].removeFromGroups # {}
        /\ articleHash[aarg[c].articleId].hasFields
        /\ scoreZ[aarg[c].articleId] # Null

\* C12: in every reachable state, the states between the store calls of a
\* running postVote or postArticle included, every article that has a
\* record and a member of the score index has
\* score = timestamp + votes * SCORE_PER_VOTE.
C12_ScoreEqualityInEveryState ==
    \A a \in Ids :
        (articleHash[a].hasFields /\ scoreZ[a] # Null)
        => scoreZ[a] = ScoreOf(articleHash[a])

\* The two sentinel members of the call of q, once the call has its bounds.
HasBounds(q) == wpc[q] # "idle" /\ Len(target[q]) >= 1
SentinelsOf(q) == {StartOf(q), EndOf(q)}

\* No flush-dict and no clearAllData has deleted words:all, and the
\* sentinels in it, since the call of q began.
NoSentinelRemoved(q) == disturbed[q] \cap {"flushDict", "clearAllData"} = {}

\* C13: under any interleaving of concurrent calls, the sentinel members of
\* two calls are different members; and as long as no flush-dict and no
\* clearAllData has deleted the index since a call began, its two sentinels stay in words:all from
\* its second zAdd to its first zRem, and both of its rank lookups find
\* their member: the call does not end with the lookup error.
C13_RankLookupsSucceed ==
    \A q \in Callers :
        /\ \A r \in Callers \ {q} :
              (HasBounds(q) /\ HasBounds(r))
              => SentinelsOf(q) \cap SentinelsOf(r) = {}
        /\ NoSentinelRemoved(q)
           => /\ wpc[q] # "threwLookupError"
              /\ wpc[q] \in {"zRankStart", "zRankEnd", "zRemStart"}
                    => Holds(wordsAll, StartOf(q)) /\ Holds(wordsAll, EndOf(q))
              /\ wpc[q] \in {"zRankEnd", "zRemStart", "zRemEnd", "zRange", "done"}
                    => startIdx[q] # Null
              /\ wpc[q] \in {"zRemStart", "zRemEnd", "zRange", "done"}
                    => endIdx[q] # Null

\* A call for "ca" has looked up both ranks while a call for "cb", whose
\* lower bound is the upper bound of "ca", inserted and removed its
\* sentinels: the zCard of the first counted a sentinel of the second,
\* which has removed both since.
C13_Witness ==
    \E q \in Callers, r \in Callers :
        /\ NoSentinelRemoved(q)
        /\ NoSentinelRemoved(r)
        /\ target[q] = <<99, 97>>
        /\ target[r] = <<99, 98>>
        /\ wpc[q] = "zRemStart"
        /\ wpc[r] = "zRange"
        /\ wordsLen[q] > Len(dict)
        /\ Len(wordsAll) = Len(dict) + 2

\* C14: when no call has failed, a call that has returned over a dictionary
\* that has stayed as it was, whatever calls were interleaved with it, has
\* returned the list the same call returns when it runs alone over the
\* dictionary, and no sentinel is in the list.
\* Stated for the calls that return the matching words when they run alone.
C14_InterleavedSameAsAlone ==
    (\A r \in Callers : wpc[r] \in {"idle", "done"} \/ InFlight(r))
    => \A q \in Callers :
           (/\ wpc[q] = "done"
            /\ FixedDictionary(q)
            /\ getSimilarWordsAlone(dict, target[q]) = Matches(target[q]))
           => /\ similarWords[q] = getSimilarWordsAlone(dict, target[q])
              /\ \A k \in 1..Len(similarWords[q]) :
                     ~IsSentinel(similarWords[q][k])

\* C15: for a prefix p of length >= 1 and a word w, both over a-z, the
\* bounds [lower, upper] of getPrefix(p) satisfy  lower < w < upper  in
\* byte order if and only if w has the prefix p.
C15_BoundsEncloseExactlyThePrefix ==
    bounds # <<>>
    => ((LexLess(bounds[1], dictWord) /\ LexLess(dictWord, bounds[2]))
            <=> HasPrefix(dictWord, prefixWord))

\* getPrefix has returned the bounds of a prefix that ends with "a", whose
\* predecessor is the character below "a", next to a longer word that has
\* the prefix.
C15_Witness ==
    /\ bounds # <<>>
    /\ prefixWord[Len(prefixWord)] = 97
    /\ bounds[1][Len(prefixWord)] = 96
    /\ HasPrefix(dictWord, prefixWord)
    /\ Len(dictWord) > Len(prefixWord)

\* C16: when no dictionary word has the prefix, a call that runs alone
\* returns the empty list; and a call that runs alone never returns a word
\* that does not start with the prefix.
C16_NoMatchReturnsEmpty ==
    \A q \in Callers :
        (ReturnedAlone(q) /\ Len(target[q]) >= 1)
        => /\ Matches(target[q]) = <<>> => similarWords[q] = <<>>
           /\ \A k \in 1..Len(similarWords[q]) :
                  HasPrefix(similarWords[q][k], target[q])

\* C17: a postVote for an id that postArticle has not issued creates no
\* member of the score index, no article record and no voter set, so an id
\* not issued has none of them; and getTopArticles returns a list, of
\* articles that were posted.
C17_VoteOnUnknownArticleChangesNothing ==
    /\ \A a \in Ids :
          a > articleSeq
          => scoreZ[a] = Null /\ articleHash[a] = NoHash /\ votedSet[a] = {}
    /\ \A c \in Clients :
          GotTop(c)
          => /\ aret[c].kind = "articles"
             /\ IdsOf(aret[c].val) \subseteq 1..articleSeq

\* C18: the list getTopArticles(count) returns holds at most count
\* articles, and exactly count when the score index holds more than count.
C18_AtMostCountArticles ==
    \A c \in Clients :
        (GotTop(c) /\ aret[c].kind = "articles")
        => /\ Len(aret[c].val) <= aarg[c].count
           /\ Cardinality(Members(scoreZ)) > aarg[c].count
                 => Len(aret[c].val) = aarg[c].count

\* Client c is inside postArticle, after incr.
Posting(c) == apc[c] \in {"timestamp", "hSet", "zAddCreated", "zAddScore"}

\* The ids postArticle has handed to client c: the id of its running call,
\* or the id its last call returned.
PostIds(c) ==
    IF Posting(c) THEN {aloc[c].id}
    ELSE IF aret[c].kind = "id" THEN {aret[c].val}
    ELSE {}

\* C19: as long as clearAllData has not flushed the store,
\* under any interleaving of concurrent postArticle calls, the ids of
\* the calls are pairwise distinct; a call that starts after another has
\* returned gets a strictly larger id; and a store call of postArticle
\* writes the record and the index entries of its own id only, which no
\* other postArticle wrote before.
C19_ArticleIdsUniqueAndMonotone ==
    [][cleared' \/ \A c \in Clients :
          /\ \A d \in Clients \ {c} : PostIds(c)' \cap PostIds(d)' = {}
          /\ (~Busy(c) /\ apc'[c] = "timestamp")
             => \A d \in Clients :
                    aret[d].kind = "id" => aloc'[c].id > aret[d].val
          /\ (apc[c] = "hSet" /\ apc'[c] = "zAddCreated")
             => /\ ~articleHash[aloc[c].id].hasFields
                /\ \A a \in Ids \ {aloc[c].id} :
                       articleHash'[a] = articleHash[a]
          /\ (apc[c] = "zAddCreated" /\ apc'[c] = "zAddScore")
             => /\ createdZ[aloc[c].id] = Null
                /\ \A a \in Ids \ {aloc[c].id} : createdZ'[a] = createdZ[a]
          /\ (apc[c] = "zAddScore" /\ apc'[c] = "done")
             => \A a \in Ids \ {aloc[c].id} : scoreZ'[a] = scoreZ[a]]_vars

\* A postArticle that started second has returned its id while the one that
\* started first is still between its store calls.
C19_Witness ==
    \E c \in Clients, d \in Clients :
        /\ ~cleared
        /\ aret[c].kind = "id"
        /\ apc[c] = "done"
        /\ Posting(d)
        /\ aloc[d].id < aret[c].val

\* C20: a call with the empty prefix ends with an error at once, and the
\* step that ends it leaves words:all as it was: no sentinel is inserted.
C20_EmptyPrefixFailsBeforeInsert ==
    [][\A q \in Callers :
          (wpc[q] = "idle" /\ wpc'[q] # "idle" /\ target'[q] = <<>>)
          => /\ wpc'[q] = "threwTypeError"
             /\ wordsAll' = wordsAll]_vars

\* A call with the empty prefix has ended with the error, over a loaded
\* dictionary that no other call has left a sentinel in.
C20_Witness ==
    /\ \E q \in Callers : wpc[q] = "threwTypeError" /\ target[q] = <<>>
    /\ Len(dict) >= 1
    /\ wordsAll = dict

====
